---- MODULE Spec2Model ----
(***************************************************************************)
(* EntityCollection (observable keyed collection of entities with batched, *)
(* suspendable, re-entrancy-guarded change notification), modelled from    *)
(* src/packages/engine/Source/Scene/ArcGisMapServerImageryProvider.js      *)
(* lines 1242-1670.                                                        *)
(*                                                                         *)
(* The JavaScript runs on one thread.  A step of the model is one call     *)
(* made either by the application (the call stack is empty) or by a        *)
(* subscriber of collectionChanged while a batch is being delivered to it  *)
(* (a "deliver" frame is on top of the stack), or the return of the        *)
(* subscribers of one delivery pass.  Every call runs to the point where   *)
(* it returns or hands control to the subscribers.                         *)
(*                                                                         *)
(* The module also models ModelExperimentalNode                            *)
(* (src/Source/Scene/ModelExperimental/ModelExperimentalNode.js) and pack  *)
(* and unpack of EllipsoidOutlineGeometry (src/Specs/Core/ColorSpec.js,    *)
(* lines 805-902), each with a specification of its own.                   *)
(***************************************************************************)
EXTENDS Integers, Sequences, FiniteSets, TLC

\* ---------------------------------------------------------------- bounds
MaxSuspend == 2      \* suspendEvents is not called beyond this nesting depth
MaxListeners == 2    \* add is not called while the entities carry this many listener slots
MaxTime == 3         \* the instants are 0 .. MaxTime
MaxStages == 2       \* no stage is pushed from outside onto a list of this length
MatMod == 2          \* the elements of a matrix are computed modulo MatMod
MaxStart == 1        \* the greatest startingIndex given to pack and unpack

\* ------------------------------------------------------------- universe
\* Entity instances 1, 2, 3; instances 1 and 3 carry the same id.
Ents == {1, 2, 3}
NoEnt == 0
Ids == {"a", "b"}
NoId == "undefined"
EntId(e) == IF e = 2 THEN "b" ELSE "a"
Colls == {"A", "B"}
NoColl == "none"

\* Instants (JulianDate) are numbers; Iso8601.MINIMUM_VALUE and
\* Iso8601.MAXIMUM_VALUE are the least and the greatest of them.  An
\* availability is <<start, stop>> with start <= stop, or NoAvail (undefined).
Times == 0..MaxTime
MINIMUM_VALUE == 0
MAXIMUM_VALUE == MaxTime
NoAvail == <<>>
Intervals == {a \in Times \X Times : a[1] <= a[2]}

VARIABLES
  entities,          \* [Colls -> Seq(Ents)]  _entities.values
  addedEntities,     \* [Colls -> Seq(Ents)]  _addedEntities.values
  removedEntities,   \* [Colls -> Seq(Ents)]  _removedEntities.values
  changedEntities,   \* [Colls -> Seq(Ents)]  _changedEntities.values
  suspendCount,      \* [Colls -> Int]        _suspendCount
  show,              \* [Colls -> BOOLEAN]    _show
  firing,            \* [Colls -> BOOLEAN]    _firing
  refire,            \* [Colls -> BOOLEAN]    _refire
  entityCollection,  \* [Ents -> Colls \cup {NoColl}]  entity.entityCollection
  entShow,           \* [Ents -> BOOLEAN]     entity.show
  listeners,         \* [Ents -> Seq(Colls \cup {NoColl})]  scopes of entity.definitionChanged
  inRaise,           \* [Ents -> BOOLEAN]     definitionChanged._insideRaiseEvent
  availability,      \* [Ents -> Intervals \cup {NoAvail}]  entity.availability
  interval,          \* what the last call returned, if it was computeAvailability
  stack,             \* call frames that wait for subscribers, innermost first
  \* history variables (read by the properties only)
  batch,             \* [Colls -> the batch handed to the subscribers by the last step, if any]
  nb,                \* [Colls -> 0..3] batches delivered in the current top-level call: 0, 1, then 2, 3, 2, ...
  last,              \* the call made by the last step and its outcome (of the calls that are recorded)
  hist,              \* [Colls -> [Ents -> ...]] add/remove history of an instance while suspended, since the last batch
  subAdd,            \* [Colls -> [Ents -> ...]] additions made by subscribers in the last top-level call
  callTouched,       \* [Colls -> BOOLEAN] a subscriber called the collection in the current top-level call
  passMutated,       \* [Colls -> BOOLEAN] a subscriber changed the collection in the current pass
  balance,           \* [Colls -> Int] suspendEvents calls minus successful resumeEvents calls
  epochDirty,        \* [Colls -> BOOLEAN] an entity was added, removed or changed while suspended
  scen,              \* [Colls -> 0..5] progress through the scenario suspend, add x, add y, removeById x, resume
  isShowingRaised,   \* [Ents -> 0..2] "isShowing" notifications raised by the last assignment to show
  returned,          \* the entity returned by the last call, if it was getById or getOrCreateEntity
  mirror,            \* [Colls -> [Ids -> Ents \cup {NoEnt}]] the map kept by a subscriber that applies every batch
  notified,          \* [Colls -> SUBSET Ents] held entities that raised definitionChanged in the current suspended epoch, outside a delivery
  obs,               \* the history variables that are recorded (fixed by the initial state)
  \* ModelExperimentalNode
  node,              \* the fields of one ModelExperimentalNode
  nodeOp,            \* the last operation on the node
  differed,          \* transform was assigned a differing value since construction or the last clear
  \* EllipsoidOutlineGeometry
  geometry,          \* the EllipsoidOutlineGeometry that is packed
  array,             \* the array packed into and unpacked from
  result,            \* <<g>>: the geometry g that the last unpack returned; <<>>: none yet
  packOp             \* the last call of pack or unpack and its arguments

vars == <<entities, addedEntities, removedEntities, changedEntities, suspendCount,
          show, firing, refire, entityCollection, entShow, listeners, inRaise,
          availability, interval, stack,
          batch, nb, last, hist, subAdd, callTouched, passMutated, balance,
          epochDirty, scen, isShowingRaised, returned, mirror, notified, obs,
          node, nodeOp, differed, geometry, array, result, packOp>>

nodeVars == <<node, nodeOp, differed>>
packVars == <<geometry, array, result, packOp>>
collVars == <<entities, addedEntities, removedEntities, changedEntities, suspendCount,
              show, firing, refire, entityCollection, entShow, listeners, inRaise,
              availability, interval, stack,
              batch, nb, last, hist, subAdd, callTouched, passMutated, balance,
              epochDirty, scen, isShowingRaised, returned, mirror, notified, obs>>

\* The state as one record, so that a JavaScript function is an operator
\* from state to state.
S == [entities |-> entities, addedEntities |-> addedEntities,
      removedEntities |-> removedEntities, changedEntities |-> changedEntities,
      suspendCount |-> suspendCount, show |-> show, firing |-> firing,
      refire |-> refire, entityCollection |-> entityCollection,
      entShow |-> entShow, listeners |-> listeners, inRaise |-> inRaise,
      availability |-> availability, interval |-> interval,
      stack |-> stack, batch |-> batch, nb |-> nb, res |-> last.res,
      hist |-> hist, subAdd |-> subAdd, callTouched |-> callTouched,
      passMutated |-> passMutated, balance |-> balance,
      epochDirty |-> epochDirty, scen |-> scen,
      isShowingRaised |-> isShowingRaised, returned |-> NoEnt,
      mirror |-> mirror, notified |-> notified]

\* --------------------------------------------------- AssociativeArray
\* An AssociativeArray is modelled by its values array; every key used by
\* EntityCollection is the id of the value stored under it.
SeqToSet(a) == {a[i] : i \in 1..Len(a)}
IdsOf(a) == {EntId(a[i]) : i \in 1..Len(a)}
AAcontains(a, id) == \E i \in 1..Len(a) : EntId(a[i]) = id
AAget(a, id) == IF AAcontains(a, id)
                THEN a[CHOOSE i \in 1..Len(a) : EntId(a[i]) = id]
                ELSE NoEnt
AAremove(a, id) == LET Keep(x) == EntId(x) # id IN SelectSeq(a, Keep)
AAset(a, id, v) == IF AAget(a, id) = v THEN a ELSE Append(AAremove(a, id), v)

\* -------------------------------------------------------------- Event
\* entity.definitionChanged: the listener is always
\* EntityCollection.prototype._onEntityDefinitionChanged, the scope is the
\* collection.  A listener removed while the event is being raised leaves
\* an empty slot that is swept when the raise ends.
addEventListener(ls, c) == Append(ls, c)
FirstIndex(ls, c) == IF \E i \in 1..Len(ls) : ls[i] = c
                     THEN CHOOSE i \in 1..Len(ls) : ls[i] = c /\ \A j \in 1..(i-1) : ls[j] # c
                     ELSE 0
removeEventListener(ls, c, inside) ==
  LET i == FirstIndex(ls, c) IN
  IF i = 0 THEN ls
  ELSE IF inside THEN [ls EXCEPT ![i] = NoColl]
  ELSE SubSeq(ls, 1, i - 1) \o SubSeq(ls, i + 1, Len(ls))
Sweep(ls) == LET Live(x) == x # NoColl IN SelectSeq(ls, Live)

\* -------------------------------------------------------------- frames
\* "deliver": collectionChanged of c is calling its subscribers;
\* "raise": definitionChanged of e is calling listener i of n;
\* "show": the show setter of c is at entity i of n, todo holds oldShows.
DeliverFrame(c) == [kind |-> "deliver", c |-> c, e |-> NoEnt, i |-> 0, n |-> 0, todo |-> <<>>]
RaiseFrame(e, n) == [kind |-> "raise", c |-> NoColl, e |-> e, i |-> 1, n |-> n, todo |-> <<>>]
ShowFrame(c, olds) == [kind |-> "show", c |-> c, e |-> NoEnt, i |-> 1, n |-> Len(olds), todo |-> olds]
Delivering(s, c) == IF s.stack = <<>> THEN FALSE ELSE Head(s.stack) = DeliverFrame(c)
AtTop(s) == s.stack = <<>>

NoHist == [e \in Ents |-> "none"]
NoBatch == [live |-> FALSE, added |-> <<>>, removed |-> <<>>, changed |-> <<>>,
            susp |-> 0, hist |-> NoHist]
NoSubAdd == [e \in Ents |-> "no"]
NoMirror == [id \in Ids |-> NoEnt]
\* the subscriber that mirrors the collection applies a batch: it inserts
\* each added entity under its id and deletes each removed entity
RECURSIVE mirrorInsert(_, _, _)
mirrorInsert(m, addedArray, i) ==
  IF i > Len(addedArray) THEN m
  ELSE mirrorInsert([m EXCEPT ![EntId(addedArray[i])] = addedArray[i]], addedArray, i + 1)
RECURSIVE mirrorDelete(_, _, _)
mirrorDelete(m, removedArray, i) ==
  IF i > Len(removedArray) THEN m
  ELSE mirrorDelete([m EXCEPT ![EntId(removedArray[i])] =
                                 IF @ = removedArray[i] THEN NoEnt ELSE @],
                    removedArray, i + 1)
mirrorApply(m, addedArray, removedArray) ==
  mirrorDelete(mirrorInsert(m, addedArray, 1), removedArray, 1)

StagingEmpty(s, c) == /\ Len(s.addedEntities[c]) = 0
                      /\ Len(s.removedEntities[c]) = 0
                      /\ Len(s.changedEntities[c]) = 0

\* ---------------------------------------------------- fireChangedEvent
\* collection._collectionChanged.raiseEvent(collection, added, removed, changed):
\* the batch is handed to the subscribers, which run until ListenerReturn.
raiseCollectionChanged(s, c, addedArray, removedArray, changedArray) ==
  [s EXCEPT
     !.stack = <<DeliverFrame(c)>> \o @,
     \* history
     !.mirror[c] = mirrorApply(@, addedArray, removedArray),
     !.batch[c] = [live |-> TRUE, added |-> addedArray, removed |-> removedArray,
                   changed |-> changedArray, susp |-> s.suspendCount[c],
                   hist |-> s.hist[c]],
     !.nb[c] = IF @ < 2 THEN @ + 1 ELSE 5 - @,
     !.hist[c] = NoHist,
     !.passMutated[c] = FALSE,
     !.subAdd[c] = [e \in Ents |->
                      IF e \in SeqToSet(addedArray)
                      THEN (IF @[e] = "pending" THEN "reported"
                            ELSE IF @[e] = "reported" THEN "twice" ELSE @[e])
                      ELSE @[e]]]

\* One iteration of the do-while body: snapshot, clear, raise.
firePass(s, c) ==
  raiseCollectionChanged(
    [s EXCEPT !.refire[c] = FALSE,
              !.addedEntities[c] = <<>>,
              !.removedEntities[c] = <<>>,
              !.changedEntities[c] = <<>>],
    c, s.addedEntities[c], s.removedEntities[c], s.changedEntities[c])

\* fireChangedEvent without the test of _suspendCount
fireChangedEvent_IgnoresSuspend(s, c) ==
  IF s.firing[c] THEN [s EXCEPT !.refire[c] = TRUE]
  ELSE IF ~StagingEmpty(s, c)
       THEN firePass([s EXCEPT !.firing[c] = TRUE], c)
       ELSE s

\* fireChangedEvent without the test of _firing
fireChangedEvent_NoFiringTest(s, c) ==
  IF s.suspendCount[c] = 0 /\ ~StagingEmpty(s, c)
  THEN firePass([s EXCEPT !.firing[c] = TRUE], c)
  ELSE s

fireChangedEvent(s, c) ==
  IF s.firing[c] THEN [s EXCEPT !.refire[c] = TRUE]
  ELSE IF s.suspendCount[c] = 0 /\ ~StagingEmpty(s, c)
       THEN firePass([s EXCEPT !.firing[c] = TRUE], c)
       ELSE s

\* history: an entity was added, removed or changed while events are suspended
NoteOp(s, c) == IF s.suspendCount[c] > 0 THEN [s EXCEPT !.epochDirty[c] = TRUE] ELSE s

\* ------------------------------------------------------ suspend / resume
suspendEvents(s, c) ==
  [s EXCEPT !.suspendCount[c] = @ + 1, !.res = "ok",
            !.balance[c] = @ + 1]

\* this._suspendCount--; fireChangedEvent(this);
decrementAndFire(s, c) ==
  fireChangedEvent(
    [s EXCEPT !.suspendCount[c] = @ - 1, !.res = "ok",
              !.balance[c] = @ - 1,
              !.epochDirty[c] = IF s.suspendCount[c] = 1 THEN FALSE ELSE @,
              !.notified[c] = IF s.suspendCount[c] = 1 THEN {} ELSE @],
    c)

\* resumeEvents without the test that throws
resumeEvents_NoCheck(s, c) == decrementAndFire(s, c)

resumeEvents(s, c) ==
  IF s.suspendCount[c] = 0 THEN [s EXCEPT !.res = "error"]
  ELSE decrementAndFire(s, c)

\* ------------------------------------------------- _onEntityDefinitionChanged
\* _onEntityDefinitionChanged without the test for an id staged as added
onEntityDefinitionChanged_AlwaysStages(s, c, e) ==
  fireChangedEvent(
    NoteOp([s EXCEPT !.changedEntities[c] = AAset(@, EntId(e), e)], c), c)

\* history: a held entity raised definitionChanged while events are suspended
\* and no delivery is in progress
NoteNotified(s, c, e) ==
  IF s.suspendCount[c] > 0 /\ ~s.firing[c] /\ e \in SeqToSet(s.entities[c])
  THEN [s EXCEPT !.notified[c] = @ \cup {e}] ELSE s

onEntityDefinitionChanged(s, c, e) ==
  LET id == EntId(e)
      s1 == IF ~AAcontains(s.addedEntities[c], id)
            THEN [s EXCEPT !.changedEntities[c] = AAset(@, id, e)]
            ELSE s
  IN fireChangedEvent(NoteNotified(NoteOp(s1, c), c, e), c)

\* Entity.isShowing
isShowing(s, e) ==
  /\ s.entShow[e]
  /\ (s.entityCollection[e] = NoColl \/ s.show[s.entityCollection[e]])

\* entity.definitionChanged.raiseEvent(entity, ...): enter the listener loop
raiseDefinitionChanged(s, e) ==
  [s EXCEPT !.stack = <<RaiseFrame(e, Len(s.listeners[e]))>> \o @,
            !.inRaise[e] = TRUE]

\* Run the innermost frame on until control passes to the subscribers of a
\* collection or the call stack is empty.
RECURSIVE Continue(_)
Continue(s) ==
  IF s.stack = <<>> THEN s
  ELSE
    LET f == Head(s.stack)
        adv == [s EXCEPT !.stack = <<[f EXCEPT !.i = f.i + 1]>> \o Tail(@)]
    IN
    CASE f.kind = "deliver" -> s
      [] f.kind = "raise" ->
           IF f.i > f.n
           THEN Continue([s EXCEPT !.stack = Tail(@),
                                   !.listeners[f.e] = Sweep(@),
                                   !.inRaise[f.e] = FALSE])
           ELSE LET l == IF f.i <= Len(s.listeners[f.e])
                         THEN s.listeners[f.e][f.i] ELSE NoColl
                IN IF l = NoColl THEN Continue(adv)
                   ELSE Continue(onEntityDefinitionChanged(adv, l, f.e))
      [] f.kind = "show" ->
           IF f.i > f.n
           THEN Continue(resumeEvents([s EXCEPT !.stack = Tail(@)], f.c))
           ELSE LET e == IF f.i <= Len(s.entities[f.c])
                         THEN s.entities[f.c][f.i] ELSE NoEnt
                IN IF e # NoEnt /\ f.todo[f.i] # isShowing(s, e)
                   THEN Continue(raiseDefinitionChanged(
                          [adv EXCEPT !.isShowingRaised[e] = IF @ < 2 THEN @ + 1 ELSE @],
                          e))
                   ELSE Continue(adv)

\* The subscribers of one pass have returned: the while test and what follows.
afterRaise(s, c) ==
  IF s.refire[c] THEN firePass([s EXCEPT !.stack = Tail(@)], c)
  ELSE Continue([s EXCEPT !.firing[c] = FALSE, !.stack = Tail(@)])

\* A subscriber throws: the error leaves raiseEvent, the loop of
\* fireChangedEvent and every caller below it, none of which catches it, so
\* nothing that follows the calls on the stack is executed.
listenerThrows(s) == [s EXCEPT !.stack = <<>>, !.res = "error"]

\* ------------------------------------------------------------ add / remove
\* history of an instance in the current suspended epoch: "addP" it was added
\* while its id was not staged as removed, "addN" it was added while its id was
\* staged as removed, "remP"/"remN" it was removed again after that
HistRemoved(s, c, h) ==
  IF s.suspendCount[c] = 0 THEN "none"
  ELSE IF h = "addP" THEN "remP" ELSE IF h = "addN" THEN "remN" ELSE "none"

\* the staging done by add, with the addition staged whether or not a removal
\* of the id is staged
stageAddition_Always(s, c, e) ==
  [s EXCEPT !.removedEntities[c] = AAremove(@, EntId(e)),
            !.addedEntities[c] = AAset(@, EntId(e), e)]

\* if (!this._removedEntities.remove(id)) { this._addedEntities.set(id, entity); }
stageAddition(s, c, e) ==
  LET id == EntId(e) IN
  IF AAcontains(s.removedEntities[c], id)
  THEN [s EXCEPT !.removedEntities[c] = AAremove(@, id)]
  ELSE [s EXCEPT !.addedEntities[c] = AAset(@, id, e)]

\* add, after the test for a held id
addEntity(s, c, e) ==
  LET id == EntId(e)
      pend == AAcontains(s.removedEntities[c], id)
      s1 == [s EXCEPT
               !.entityCollection[e] = c,
               !.entities[c] = AAset(@, id, e)]
      s2 == stageAddition(s1, c, e)
      s3 == [s2 EXCEPT
               !.listeners[e] = addEventListener(@, c),
               !.res = "ok",
               \* history
               !.hist[c][e] = IF s.suspendCount[c] = 0 THEN "none"
                              ELSE IF pend THEN "addN" ELSE "addP",
               !.subAdd[c][e] = IF AtTop(s) \/ AAget(s.removedEntities[c], id) = e
                                THEN @ ELSE "pending"]
  IN fireChangedEvent(NoteOp(s3, c), c)

\* add without the test for a held id
add_NoDuplicateCheck(s, c, e) == addEntity(s, c, e)

add(s, c, e) ==
  IF AAcontains(s.entities[c], EntId(e)) THEN [s EXCEPT !.res = "error"]
  ELSE addEntity(s, c, e)

\* the staging done by removeById, with the removal staged whether or not the
\* addition of the id is staged
stageRemoval_Always(s, c, id, entity) ==
  [s EXCEPT !.addedEntities[c] = AAremove(@, id),
            !.removedEntities[c] = AAset(@, id, entity),
            !.changedEntities[c] = AAremove(@, id)]

\* if (!this._addedEntities.remove(id)) { this._removedEntities.set(id, entity);
\*                                         this._changedEntities.remove(id); }
stageRemoval(s, c, id, entity) ==
  IF AAcontains(s.addedEntities[c], id)
  THEN [s EXCEPT !.addedEntities[c] = AAremove(@, id)]
  ELSE [s EXCEPT !.removedEntities[c] = AAset(@, id, entity),
                 !.changedEntities[c] = AAremove(@, id)]

\* removeById, after the tests for an undefined and for an absent id
removeHeld(s, c, id, entity) ==
  LET s0 == stageRemoval([s EXCEPT !.entities[c] = AAremove(@, id)], c, id, entity)
      s1 == [s0 EXCEPT
               !.listeners[entity] = removeEventListener(@, c, s.inRaise[entity]),
               !.res = "true",
               \* history
               !.hist[c][entity] = HistRemoved(s, c, @),
               !.subAdd[c][entity] = "no"]
  IN fireChangedEvent(NoteOp(s1, c), c)

\* removeById that calls fireChangedEvent before it returns false
removeById_FiresWhenAbsent(s, c, id) ==
  LET entity == AAget(s.entities[c], id) IN
  IF id = NoId \/ entity = NoEnt
  THEN fireChangedEvent([s EXCEPT !.res = "false"], c)
  ELSE removeHeld(s, c, id, entity)

removeById(s, c, id) ==
  IF id = NoId THEN [s EXCEPT !.res = "false"]
  ELSE LET entity == AAget(s.entities[c], id) IN
       IF entity = NoEnt THEN [s EXCEPT !.res = "false"]
       ELSE removeHeld(s, c, id, entity)

remove(s, c, e) ==
  IF e = NoEnt THEN [s EXCEPT !.res = "false"]
  ELSE removeById(s, c, EntId(e))

\* ------------------------------------------- getById / getOrCreateEntity
getById(s, c, id) ==
  [s EXCEPT !.returned = AAget(s.entities[c], id), !.res = "ok"]

\* getOrCreateEntity that creates the entity and does not add it
getOrCreateEntity_NoAdd(s, c, id, created) ==
  LET entity == AAget(s.entities[c], id) IN
  IF entity # NoEnt THEN [s EXCEPT !.returned = entity, !.res = "ok"]
  ELSE [s EXCEPT !.returned = created, !.res = "ok"]

\* created is the instance that new Entity({id: id}) gives
getOrCreateEntity(s, c, id, created) ==
  LET entity == AAget(s.entities[c], id) IN
  IF entity # NoEnt THEN [s EXCEPT !.returned = entity, !.res = "ok"]
  ELSE [add(s, c, created) EXCEPT !.returned = created]

\* the loop of removeAll without the test for an entity staged as added
RECURSIVE removeAllLoop_StagesAdded(_, _, _)
removeAllLoop_StagesAdded(s, c, i) ==
  IF i > Len(s.entities[c]) THEN s
  ELSE
    LET existingItem == s.entities[c][i] IN
    removeAllLoop_StagesAdded(
      [s EXCEPT
         !.listeners[existingItem] =
            removeEventListener(@, c, s.inRaise[existingItem]),
         !.removedEntities[c] = AAset(@, EntId(existingItem), existingItem)],
      c, i + 1)

RECURSIVE removeAllLoop(_, _, _)
removeAllLoop(s, c, i) ==
  IF i > Len(s.entities[c]) THEN s
  ELSE
    LET existingItem == s.entities[c][i]
        existingItemId == EntId(existingItem)
        addedItem == AAget(s.addedEntities[c], existingItemId)
    IN IF addedItem = NoEnt
       THEN removeAllLoop(
              [s EXCEPT
                 !.listeners[existingItem] =
                    removeEventListener(@, c, s.inRaise[existingItem]),
                 !.removedEntities[c] = AAset(@, existingItemId, existingItem)],
              c, i + 1)
       ELSE removeAllLoop(s, c, i + 1)

removeAll(s, c) ==
  LET s1 == removeAllLoop(s, c, 1)
      s2 == [s1 EXCEPT !.entities[c] = <<>>,
                       !.addedEntities[c] = <<>>,
                       !.changedEntities[c] = <<>>,
                       !.res = "ok",
                       \* history
                       !.hist[c] = [e \in Ents |->
                                      IF e \in SeqToSet(s.entities[c])
                                      THEN HistRemoved(s, c, @[e]) ELSE @[e]],
                       !.subAdd[c] = [e \in Ents |->
                                      IF e \in SeqToSet(s.entities[c]) THEN "no" ELSE @[e]]]
  IN fireChangedEvent(IF Len(s.entities[c]) > 0 THEN NoteOp(s2, c) ELSE s2, c)

\* ---------------------------------------------------------------- show
\* the first loop of the show setter run after _show is assigned
RECURSIVE oldShowsOf_AfterAssign(_, _, _)
oldShowsOf_AfterAssign(s, c, i) ==
  IF i > Len(s.entities[c]) THEN <<>>
  ELSE <<isShowing([s EXCEPT !.show[c] = ~@], s.entities[c][i])>>
         \o oldShowsOf_AfterAssign(s, c, i + 1)

RECURSIVE oldShowsOf(_, _, _)
oldShowsOf(s, c, i) ==
  IF i > Len(s.entities[c]) THEN <<>>
  ELSE <<isShowing(s, s.entities[c][i])>> \o oldShowsOf(s, c, i + 1)

setShow(s, c, value) ==
  IF value = s.show[c]
  THEN [s EXCEPT !.res = "ok", !.isShowingRaised = [e \in Ents |-> 0]]
  ELSE
    LET s1 == suspendEvents([s EXCEPT !.isShowingRaised = [e \in Ents |-> 0]], c)
        oldShows == oldShowsOf(s1, c, 1)
        s2 == [s1 EXCEPT !.show[c] = value,
                         !.stack = <<ShowFrame(c, oldShows)>> \o @]
    IN Continue(s2)

\* A property of the entity is assigned a new value: definitionChanged is raised.
mutate(s, e) == Continue(raiseDefinitionChanged([s EXCEPT !.res = "ok"], e))

\* entity.show is assigned the other value: definitionChanged is raised.
toggleEntityShow(s, e) ==
  Continue(raiseDefinitionChanged([s EXCEPT !.entShow[e] = ~@, !.res = "ok"], e))

\* -------------------------------------------------- computeAvailability
\* the test of start without the comparison with Iso8601.MINIMUM_VALUE
tightenStart_KeepsSentinel(startTime, start) ==
  IF start < startTime THEN start ELSE startTime

\* if (JulianDate.lessThan(start, startTime) &&
\*     !start.equals(Iso8601.MINIMUM_VALUE)) { startTime = start; }
tightenStart(startTime, start) ==
  IF start < startTime /\ start # MINIMUM_VALUE THEN start ELSE startTime

\* if (JulianDate.greaterThan(stop, stopTime) &&
\*     !stop.equals(Iso8601.MAXIMUM_VALUE)) { stopTime = stop; }
tightenStop(stopTime, stop) ==
  IF stop > stopTime /\ stop # MAXIMUM_VALUE THEN stop ELSE stopTime

\* the loop over _entities.values; the result is <<startTime, stopTime>>
RECURSIVE availabilityLoop(_, _, _, _, _)
availabilityLoop(s, c, i, startTime, stopTime) ==
  IF i > Len(s.entities[c]) THEN <<startTime, stopTime>>
  ELSE
    LET entity == s.entities[c][i]
        avail == s.availability[entity]
    IN IF avail # NoAvail
       THEN availabilityLoop(s, c, i + 1, tightenStart(startTime, avail[1]),
                             tightenStop(stopTime, avail[2]))
       ELSE availabilityLoop(s, c, i + 1, startTime, stopTime)

computeAvailability(s, c) ==
  LET r == availabilityLoop(s, c, 1, MAXIMUM_VALUE, MINIMUM_VALUE)
      startTime == IF MAXIMUM_VALUE = r[1] THEN MINIMUM_VALUE ELSE r[1]
      stopTime == IF MINIMUM_VALUE = r[2] THEN MAXIMUM_VALUE ELSE r[2]
  IN [s EXCEPT !.interval = <<startTime, stopTime>>, !.res = "ok"]

\* ------------------------------------------------------------- the steps
\* A call can be made by the application or by a subscriber being notified.
CanCall == IF stack = <<>> THEN TRUE ELSE Head(stack).kind = "deliver"

AllColls(v) == [x \in Colls |-> v]

\* history at the start of a call on the collections cs
Begin(cs) ==
  IF AtTop(S) THEN [S EXCEPT !.subAdd = AllColls(NoSubAdd)]
  ELSE [S EXCEPT !.callTouched = [x \in Colls |-> @[x] \/ x \in cs]]

Content(s, c) == <<s.entities[c], s.addedEntities[c], s.removedEntities[c],
                   s.changedEntities[c]>>

\* progress through: suspendEvents, add(1), add(2), removeById("a"), resumeEvents,
\* made by the application on an empty, idle, unsuspended collection
ScenStep(c, op, x, e, id, res) ==
  IF ~AtTop(S) THEN 0
  ELSE IF x \in Colls \ {c} THEN scen[c]
  ELSE IF op = "suspendEvents" /\ suspendCount[c] = 0 /\ ~firing[c]
          /\ Content(S, c) = <<<<>>, <<>>, <<>>, <<>>>> THEN 1
  ELSE IF scen[c] = 1 /\ op = "add" /\ e = 1 /\ res = "ok" THEN 2
  ELSE IF scen[c] = 2 /\ op = "add" /\ e = 2 /\ res = "ok" THEN 3
  ELSE IF scen[c] = 3 /\ op = "removeById" /\ id = "a" /\ res = "true" THEN 4
  ELSE IF scen[c] = 4 /\ op = "resumeEvents" /\ res = "ok" THEN 5
  ELSE 0

\* The next state is t, reached by the call op(c, e, id).  The history of a
\* top-level call is dropped when the call returns to the application.
Finish(t, op, c, e, id) ==
  LET done == t.stack = <<>> IN
  /\ entities' = t.entities
  /\ addedEntities' = t.addedEntities
  /\ removedEntities' = t.removedEntities
  /\ changedEntities' = t.changedEntities
  /\ suspendCount' = t.suspendCount
  /\ show' = t.show
  /\ firing' = t.firing
  /\ refire' = t.refire
  /\ entityCollection' = t.entityCollection
  /\ entShow' = t.entShow
  /\ listeners' = t.listeners
  /\ inRaise' = t.inRaise
  /\ availability' = t.availability
  /\ interval' = IF op = "computeAvailability" THEN t.interval ELSE NoAvail
  /\ stack' = t.stack
  /\ batch' = IF "batch" \notin obs THEN batch
               ELSE [x \in Colls |-> IF t.nb[x] # nb[x] THEN t.batch[x] ELSE NoBatch]
  /\ nb' = IF "nb" \notin obs THEN nb
            ELSE IF done THEN AllColls(0) ELSE t.nb
  /\ hist' = IF "hist" \notin obs THEN hist ELSE t.hist
  /\ subAdd' = IF "subAdd" \notin obs THEN subAdd
                ELSE IF done
                THEN [x \in Colls |-> [y \in Ents |->
                        IF t.subAdd[x][y] \in {"pending", "twice"}
                        THEN t.subAdd[x][y] ELSE "no"]]
                ELSE t.subAdd
  /\ callTouched' = IF "callTouched" \notin obs THEN callTouched
                     ELSE IF done THEN AllColls(FALSE) ELSE t.callTouched
  /\ balance' = IF "balance" \notin obs THEN balance ELSE t.balance
  /\ epochDirty' = IF "epochDirty" \notin obs THEN epochDirty ELSE t.epochDirty
  /\ passMutated' = IF "passMutated" \notin obs THEN passMutated
                     ELSE [x \in Colls |->
                       IF done THEN FALSE
                       ELSE IF op # "return" /\ firing[x] /\ Content(t, x) # Content(S, x)
                       THEN TRUE ELSE t.passMutated[x]]
  /\ last' = IF op \in obs THEN [op |-> op, res |-> t.res]
              ELSE [op |-> "other", res |-> "ok"]
  /\ scen' = IF "scen" \notin obs THEN scen
              ELSE [x \in Colls |-> ScenStep(x, op, c, e, id, t.res)]
  /\ isShowingRaised' = IF "isShowingRaised" \notin obs THEN isShowingRaised
                         ELSE IF done /\ op # "show" THEN [x \in Ents |-> 0]
                         ELSE t.isShowingRaised
  /\ returned' = t.returned
  /\ mirror' = IF "mirror" \notin obs THEN mirror ELSE t.mirror
  /\ notified' = IF "notified" \notin obs THEN notified ELSE t.notified
  /\ obs' = obs
  /\ UNCHANGED <<nodeVars, packVars>>

RECURSIVE SumLen(_, _)
SumLen(f, D) == IF D = {} THEN 0
                ELSE LET x == CHOOSE y \in D : TRUE IN Len(f[x]) + SumLen(f, D \ {x})

Add(c, e) ==
  /\ CanCall
  /\ IF AAcontains(entities[c], EntId(e)) THEN TRUE
     ELSE SumLen(listeners, Ents) < MaxListeners
  /\ Finish(add(Begin({c}), c, e), "add", c, e, EntId(e))

Remove(c, e) ==
  /\ CanCall
  /\ Finish(remove(Begin({c}), c, e), "remove", c, e, EntId(e))

RemoveById(c, id) ==
  /\ CanCall
  /\ Finish(removeById(Begin({c}), c, id), "removeById", c, NoEnt, id)

RemoveAll(c) ==
  /\ CanCall
  /\ Finish(removeAll(Begin({c}), c), "removeAll", c, NoEnt, "")

SuspendEvents(c) ==
  /\ CanCall
  /\ suspendCount[c] < MaxSuspend
  /\ Finish(suspendEvents(Begin({c}), c), "suspendEvents", c, NoEnt, "")

ResumeEvents(c) ==
  /\ CanCall
  /\ Finish(resumeEvents(Begin({c}), c), "resumeEvents", c, NoEnt, "")

SetShow(c, v) ==
  /\ CanCall
  /\ Finish(setShow(Begin({c}), c, v), "show", c, NoEnt, "")

Mutate(e) ==
  /\ CanCall
  /\ Finish(mutate(Begin(SeqToSet(listeners[e])), e), "mutate", NoColl, e, EntId(e))

ToggleEntityShow(e) ==
  /\ CanCall
  /\ Finish(toggleEntityShow(Begin(SeqToSet(listeners[e])), e), "entityShow", NoColl, e, EntId(e))

GetById(c, id) ==
  /\ CanCall
  /\ Finish(getById(Begin({}), c, id), "getById", c, NoEnt, id)

\* the instances that new Entity({id: id}) can give: those with this id that
\* no collection, staging set or listener list refers to
Unused(id) ==
  {e \in Ents :
     /\ EntId(e) = id
     /\ entityCollection[e] = NoColl
     /\ listeners[e] = <<>>
     /\ entShow[e]
     /\ \A c \in Colls :
          e \notin SeqToSet(entities[c]) \cup SeqToSet(addedEntities[c])
                    \cup SeqToSet(removedEntities[c]) \cup SeqToSet(changedEntities[c])}

GetOrCreateEntity(c, id) ==
  /\ CanCall
  /\ IF AAcontains(entities[c], id)
     THEN Finish(getOrCreateEntity(Begin({c}), c, id, NoEnt),
                 "getOrCreateEntity", c, NoEnt, id)
     ELSE /\ SumLen(listeners, Ents) < MaxListeners
          /\ \E e \in Unused(id) :
               Finish(getOrCreateEntity(Begin({c}), c, id, e),
                      "getOrCreateEntity", c, e, id)

ComputeAvailability(c) ==
  /\ CanCall
  /\ Finish(computeAvailability(Begin({}), c), "computeAvailability", c, NoEnt, "")

\* the subscribers of the batch being delivered by c return
ListenerReturn(c) ==
  /\ Delivering(S, c)
  /\ Finish(afterRaise([S EXCEPT !.res = "ok"], c), "return", c, NoEnt, "")

\* a subscriber of the batch being delivered by c throws an error
ListenerThrow(c) ==
  /\ Delivering(S, c)
  /\ Finish(listenerThrows(S), "throw", c, NoEnt, "")

\* ------------------------------------------------- ModelExperimentalNode
\* A matrix is <<m11, m12, m21, m22>> with elements in 0 .. MatMod - 1;
\* NoMat is undefined.
NoMat == <<>>
IDENTITY == <<1, 0, 0, 1>>
Matrix4multiply(left, right) ==
  <<(left[1] * right[1] + left[2] * right[3]) % MatMod,
    (left[1] * right[2] + left[2] * right[4]) % MatMod,
    (left[3] * right[1] + left[4] * right[3]) % MatMod,
    (left[3] * right[2] + left[4] * right[4]) % MatMod>>
Matrix4equals(left, right) ==
  IF left = NoMat \/ right = NoMat THEN left = NoMat /\ right = NoMat
  ELSE \A i \in 1..4 : left[i] = right[i]
Matrix4clone(matrix) == IF matrix = NoMat THEN NoMat ELSE [i \in 1..4 |-> matrix[i]]

\* Axis and ModelExperimentalUtility.correctModelMatrix
Axes == {"X", "Y", "Z"}
Y_UP_TO_Z_UP == <<0, 1, 1, 0>>
X_UP_TO_Z_UP == <<1, 1, 0, 1>>
Z_UP_TO_X_UP == <<1, 0, 1, 1>>
correctModelMatrix(modelMatrix, upAxis, forwardAxis) ==
  LET up == IF upAxis = "Y" THEN Matrix4multiply(modelMatrix, Y_UP_TO_Z_UP)
            ELSE IF upAxis = "X" THEN Matrix4multiply(modelMatrix, X_UP_TO_Z_UP)
            ELSE modelMatrix
  IN IF forwardAxis = "Z" THEN Matrix4multiply(up, Z_UP_TO_X_UP) ELSE up

InstancingPipelineStage == "InstancingPipelineStage"
ModelMatrixUpdateStage == "ModelMatrixUpdateStage"
Stages == {InstancingPipelineStage, ModelMatrixUpdateStage, "CustomStage"}

\* configurePipeline without the two assignments length = 0
configurePipeline_NoClear(n) ==
  [n EXCEPT
     !.pipelineStages = IF n.node.instances THEN Append(@, InstancingPipelineStage) ELSE @,
     !.updateStages = Append(@, ModelMatrixUpdateStage)]

configurePipeline(n) ==
  LET cleared == [n EXCEPT !.pipelineStages = <<>>, !.updateStages = <<>>]
  IN [cleared EXCEPT
        !.pipelineStages = IF n.node.instances THEN Append(@, InstancingPipelineStage) ELSE @,
        !.updateStages = Append(@, ModelMatrixUpdateStage)]

\* the constructor; options.node.instances is TRUE when node.instances is defined
ModelExperimentalNode(options) ==
  LET components == options.sceneGraph.components
      product == Matrix4multiply(Matrix4clone(options.transformToRoot), options.transform)
  IN configurePipeline(
       [sceneGraph |-> options.sceneGraph,
        node |-> options.node,
        transform |-> Matrix4clone(options.transform),
        transformToRoot |-> Matrix4clone(options.transformToRoot),
        instancingNodeTransform |->
          IF options.node.instances
          THEN correctModelMatrix(product, components.upAxis, components.forwardAxis)
          ELSE NoMat,
        transformDirty |-> FALSE,
        pipelineStages |-> <<>>,
        updateStages |-> <<>>])

\* the product of the setter with its factors exchanged
instancingTransformOf_Exchanged(n) ==
  correctModelMatrix(Matrix4multiply(n.transform, n.transformToRoot),
                     n.sceneGraph.components.upAxis,
                     n.sceneGraph.components.forwardAxis)

\* the transform setter: Matrix4.multiply(_transformToRoot, _transform, ..)
\* followed by correctModelMatrix
instancingTransformOf(n) ==
  correctModelMatrix(Matrix4multiply(n.transformToRoot, n.transform),
                     n.sceneGraph.components.upAxis,
                     n.sceneGraph.components.forwardAxis)

\* the setter after its test, without the assignment to _transformDirty
assignTransform_NeverDirty(n, value) ==
  LET n1 == [n EXCEPT !.transform = Matrix4clone(value)]
  IN IF n.node.instances
     THEN [n1 EXCEPT !.instancingNodeTransform = instancingTransformOf(n1)]
     ELSE n1

\* the setter after its test, without the test of _node.instances
assignTransform_AlwaysInstancing(n, value) ==
  LET n1 == [n EXCEPT !.transformDirty = TRUE, !.transform = Matrix4clone(value)]
  IN [n1 EXCEPT !.instancingNodeTransform = instancingTransformOf(n1)]

\* the transform setter after the test for an equal value
assignTransform(n, value) ==
  LET n1 == [n EXCEPT !.transformDirty = TRUE, !.transform = Matrix4clone(value)]
  IN IF n.node.instances
     THEN [n1 EXCEPT !.instancingNodeTransform = instancingTransformOf(n1)]
     ELSE n1

\* the transform setter without the test for an equal value
setTransform_NoEqualsTest(n, value) == assignTransform(n, value)

setTransform(n, value) ==
  IF Matrix4equals(n.transform, value) THEN n ELSE assignTransform(n, value)

\* the values given to the constructor and assigned to transform
TransformInputs == {IDENTITY, <<0, 1, 1, 0>>, <<1, 1, 0, 1>>, <<1, 0, 0, 0>>}
RootInputs == {IDENTITY, <<0, 1, 1, 0>>, <<1, 1, 0, 1>>}
Options ==
  [node : [instances : BOOLEAN],
   transform : TransformInputs,
   transformToRoot : RootInputs,
   sceneGraph : [components : [upAxis : {"Y", "Z"}, forwardAxis : {"X", "Z"}]]]

SetTransform(value) ==
  /\ node' = setTransform(node, value)
  /\ nodeOp' = IF Matrix4equals(node.transform, value) THEN "setSame" ELSE "setDiff"
  /\ differed' = (differed \/ ~Matrix4equals(node.transform, value))
  /\ UNCHANGED <<collVars, packVars>>

ConfigurePipeline ==
  /\ node' = configurePipeline(node)
  /\ nodeOp' = IF node' = node THEN "configure" ELSE "reconfigure"
  /\ UNCHANGED <<differed, collVars, packVars>>

\* code outside the node pushes a stage onto one of its two lists
PushStage(list, stage) ==
  /\ Len(IF list = "pipelineStages" THEN node.pipelineStages ELSE node.updateStages)
       < MaxStages
  /\ node' = IF list = "pipelineStages"
              THEN [node EXCEPT !.pipelineStages = Append(@, stage)]
              ELSE [node EXCEPT !.updateStages = Append(@, stage)]
  /\ nodeOp' = "push"
  /\ UNCHANGED <<differed, collVars, packVars>>

\* the consumer of the flag has recomputed the transforms and clears it
ConsumerClear ==
  /\ node.transformDirty
  /\ node' = [node EXCEPT !.transformDirty = FALSE]
  /\ nodeOp' = "clear"
  /\ differed' = FALSE
  /\ UNCHANGED <<collVars, packVars>>

\* the node of the specifications that are about the collection
NoNode ==
  /\ node = ModelExperimentalNode(
               [node |-> [instances |-> FALSE], transform |-> IDENTITY,
                transformToRoot |-> IDENTITY,
                sceneGraph |-> [components |-> [upAxis |-> "Z", forwardAxis |-> "X"]]])
  /\ nodeOp = "new"
  /\ differed = FALSE

\* ----------------------------------------------- EllipsoidOutlineGeometry
\* A number n is n / 2: Whole(3) is 3.0 and Whole(1) + 1 is 1.5.  Undefined is
\* the value undefined where a number is expected.
Undefined == -1
Whole(n) == 2 * n
\* Math.round of a number that is not negative
MathRound(x) == 2 * ((x + 1) \div 2)
defaultValue(a, b) == IF a = Undefined THEN b ELSE a

\* Cartesian3: <<x, y, z>>
Cartesian3packedLength == 3
Cartesian3clone(cartesian) == [i \in 1..3 |-> cartesian[i]]
Cartesian3pack(value, arr, startingIndex) ==
  [arr EXCEPT ![startingIndex] = value[1],
              ![startingIndex + 1] = value[2],
              ![startingIndex + 2] = value[3]]
Cartesian3unpack(arr, startingIndex) ==
  <<arr[startingIndex], arr[startingIndex + 1], arr[startingIndex + 2]>>

defaultRadii == <<Whole(1), Whole(1), Whole(1)>>

\* the constructor; options.radii is <<>> when it is undefined
EllipsoidOutlineGeometry(options) ==
  [radii |-> Cartesian3clone(IF options.radii = <<>> THEN defaultRadii ELSE options.radii),
   stackPartitions |-> MathRound(defaultValue(options.stackPartitions, Whole(10))),
   slicePartitions |-> MathRound(defaultValue(options.slicePartitions, Whole(8))),
   subdivisions |-> MathRound(defaultValue(options.subdivisions, Whole(128)))]

packedLength == Cartesian3packedLength + 3

\* pack that writes slicePartitions before stackPartitions
pack_CountsExchanged(value, arr, startingIndex) ==
  LET i == defaultValue(startingIndex, 0) + Cartesian3packedLength
  IN [Cartesian3pack(value.radii, arr, defaultValue(startingIndex, 0)) EXCEPT
        ![i] = value.slicePartitions,
        ![i + 1] = value.stackPartitions,
        ![i + 2] = value.subdivisions]

pack(value, arr, startingIndex) ==
  LET i == defaultValue(startingIndex, 0) + Cartesian3packedLength
  IN [Cartesian3pack(value.radii, arr, defaultValue(startingIndex, 0)) EXCEPT
        ![i] = value.stackPartitions,
        ![i + 1] = value.slicePartitions,
        ![i + 2] = value.subdivisions]

\* res is <<>> when no result object is given, <<g>> when g is given
unpack(arr, startingIndex, res) ==
  LET radii == Cartesian3unpack(arr, defaultValue(startingIndex, 0))
      i == defaultValue(startingIndex, 0) + Cartesian3packedLength
      stackPartitions == arr[i]
      slicePartitions == arr[i + 1]
      subdivisions == arr[i + 2]
  IN IF res = <<>>
     THEN EllipsoidOutlineGeometry(
            [radii |-> radii, stackPartitions |-> stackPartitions,
             slicePartitions |-> slicePartitions, subdivisions |-> subdivisions])
     ELSE [res[1] EXCEPT !.radii = Cartesian3clone(radii),
                         !.stackPartitions = stackPartitions,
                         !.slicePartitions = slicePartitions,
                         !.subdivisions = subdivisions]

\* the options the geometry is constructed from, the starting indices and
\* the indices of the array
GeometryOptions ==
  [radii : {<<>>, <<Whole(1), Whole(2), Whole(3)>>},
   stackPartitions : {Undefined, Whole(1), Whole(1) + 1, Whole(3)},
   slicePartitions : {Undefined, Whole(0), Whole(3)},
   subdivisions : {Undefined, Whole(2) + 1, Whole(3)}]
Starts == {Undefined} \cup (0..MaxStart)
Indices == 0..(MaxStart + packedLength - 1)

Pack(startingIndex) ==
  /\ array' = pack(geometry, array, startingIndex)
  /\ packOp' = [op |-> "pack", startingIndex |-> startingIndex, withResult |-> FALSE]
  /\ UNCHANGED <<geometry, result, collVars, nodeVars>>

\* the result object given to unpack is the geometry returned by the last
\* unpack, or a geometry constructed without options
Unpack(startingIndex, withResult) ==
  /\ result' = <<unpack(array, startingIndex,
                        IF ~withResult THEN <<>>
                        ELSE IF result = <<>>
                        THEN <<EllipsoidOutlineGeometry(
                                 [radii |-> <<>>, stackPartitions |-> Undefined,
                                  slicePartitions |-> Undefined,
                                  subdivisions |-> Undefined])>>
                        ELSE result)>>
  /\ packOp' = [op |-> "unpack", startingIndex |-> startingIndex,
                withResult |-> withResult]
  /\ UNCHANGED <<geometry, array, collVars, nodeVars>>

NoPackOp == [op |-> "none", startingIndex |-> Undefined, withResult |-> FALSE]

\* the geometry of the specifications that are about the collection or the node
NoPack ==
  /\ geometry = EllipsoidOutlineGeometry(
                   [radii |-> <<>>, stackPartitions |-> Undefined,
                    slicePartitions |-> Undefined, subdivisions |-> Undefined])
  /\ array = [i \in Indices |-> Undefined]
  /\ result = <<>>
  /\ packOp = NoPackOp

\* --------------------------------------------------------- specification
InitObs(o) ==
  /\ entities = AllColls(<<>>)
  /\ addedEntities = AllColls(<<>>)
  /\ removedEntities = AllColls(<<>>)
  /\ changedEntities = AllColls(<<>>)
  /\ suspendCount = AllColls(0)
  /\ show = AllColls(TRUE)
  /\ firing = AllColls(FALSE)
  /\ refire = AllColls(FALSE)
  /\ entityCollection = [e \in Ents |-> NoColl]
  /\ entShow = [e \in Ents |-> TRUE]
  /\ listeners = [e \in Ents |-> <<>>]
  /\ inRaise = [e \in Ents |-> FALSE]
  /\ interval = NoAvail
  /\ stack = <<>>
  /\ batch = AllColls(NoBatch)
  /\ nb = AllColls(0)
  /\ last = [op |-> "other", res |-> "ok"]
  /\ hist = AllColls(NoHist)
  /\ subAdd = AllColls(NoSubAdd)
  /\ callTouched = AllColls(FALSE)
  /\ passMutated = AllColls(FALSE)
  /\ balance = AllColls(0)
  /\ epochDirty = AllColls(FALSE)
  /\ scen = AllColls(0)
  /\ isShowingRaised = [e \in Ents |-> 0]
  /\ returned = NoEnt
  /\ mirror = AllColls(NoMirror)
  /\ notified = AllColls({})
  /\ obs = o

\* no entity has an availability
NoAvailability == availability = [e \in Ents |-> NoAvail]

\* the collection is used alone
Alone == NoAvailability /\ NoNode /\ NoPack

\* One collection, "A", used by the application and by its own subscribers.
Next ==
  \/ \E e \in Ents : Add("A", e)
  \/ \E e \in Ents : Remove("A", e)
  \/ \E id \in Ids : RemoveById("A", id)
  \/ RemoveAll("A")
  \/ SuspendEvents("A")
  \/ ResumeEvents("A")
  \/ \E e \in Ents : Mutate(e)
  \/ ListenerReturn("A")

\* The specifications differ only in the history that is recorded.
AllOps == {"add", "remove", "removeById", "removeAll", "suspendEvents",
           "resumeEvents", "mutate", "return"}
Init == InitObs(AllOps \cup {"balance"}) /\ Alone
Spec == Init /\ [][Next]_vars

InitBatch == InitObs({"batch", "hist", "scen", "nb", "removeAll"}) /\ Alone
SpecBatch == InitBatch /\ [][Next]_vars

InitEpoch == InitObs({"batch", "nb", "epochDirty", "callTouched"}) /\ Alone
SpecEpoch == InitEpoch /\ [][Next]_vars

InitPass == InitObs({"nb", "subAdd", "passMutated"}) /\ Alone
SpecPass == InitPass /\ [][Next]_vars

\* ------------------------------------------------------------- properties
Held(c) == SeqToSet(entities[c])
HeldIds(c) == IdsOf(entities[c])

\* C1: add(entity) for an entity whose id is already held raises an error and
\* changes nothing: the mapping, the three staging sets, suspendCount, the
\* subscriptions and the owner of every entity are as before, and no batch is
\* delivered (no delivery starts and no re-fire is requested).
C1_DuplicateAddChangesNothing ==
  [][\A e \in Ents :
       (Add("A", e) /\ EntId(e) \in HeldIds("A"))
         => /\ last'.res = "error"
            /\ UNCHANGED <<entities, addedEntities, removedEntities,
                           changedEntities, suspendCount, listeners,
                           entityCollection, show, firing, refire, stack>>]_vars

\* a duplicate add has just been rejected while an entity is staged
C1_Witness ==
  /\ last = [op |-> "add", res |-> "error"]
  /\ Len(entities["A"]) = 2
  /\ Len(addedEntities["A"]) > 0

\* C6: the ids staged as added, removed and changed are pairwise disjoint.
C6_StagingDisjoint ==
  /\ IdsOf(addedEntities["A"]) \cap IdsOf(removedEntities["A"]) = {}
  /\ IdsOf(addedEntities["A"]) \cap IdsOf(changedEntities["A"]) = {}
  /\ IdsOf(removedEntities["A"]) \cap IdsOf(changedEntities["A"]) = {}

\* C8: resumeEvents at suspendCount 0 raises an error and leaves the count at
\* 0; the count is never negative and equals the number of suspendEvents
\* calls minus the number of successful resumeEvents calls.
SuspendCountBalanced ==
  suspendCount["A"] >= 0 /\ suspendCount["A"] = balance["A"]
C8_ResumeImbalance ==
  [][/\ (ResumeEvents("A") /\ suspendCount["A"] = 0)
          => (last'.res = "error" /\ suspendCount'["A"] = 0
              /\ UNCHANGED <<entities, addedEntities, removedEntities,
                             changedEntities, firing, refire, stack>>)
     /\ SuspendCountBalanced /\ SuspendCountBalanced']_vars

\* resumeEvents has just been rejected on a collection that holds an entity
C8_Witness ==
  /\ last = [op |-> "resumeEvents", res |-> "error"]
  /\ suspendCount["A"] = 0
  /\ Len(entities["A"]) > 0

\* C2: no batch is delivered to the subscribers while suspendCount > 0.
C2_NoBatchWhileSuspended ==
  batch["A"].live => batch["A"].susp = 0

InBatch(e) == e \in SeqToSet(batch["A"].added) \cup SeqToSet(batch["A"].removed)
Staged(e) == e \in SeqToSet(addedEntities["A"]) \cup SeqToSet(removedEntities["A"])

\* C5 as stated: an entity that was not held when it was added and that was
\* removed again in the same suspended epoch is in neither the added nor the
\* removed list of the batch delivered when events resume (the first batch of
\* the call).
C5_AddRemoveNetZero_Original ==
  \A e \in Ents :
    (batch["A"].live /\ batch["A"].susp = 0 /\ nb["A"] = 1
       /\ batch["A"].hist[e] \in {"remP", "remN"}) => ~InBatch(e)

\* C5 amended: an entity whose id was neither held nor staged as removed when
\* it was added, and that was removed again in the same suspended epoch, is staged
\* in neither the added nor the removed set and is in neither list of that
\* batch; and suspendEvents, add(x), add(y), removeById(x), resumeEvents on an
\* empty collection delivers exactly one batch, added = [y], removed = [],
\* changed = [].
C5_AddRemoveNetZero ==
  /\ \A e \in Ents :
       /\ hist["A"][e] = "remP" => ~Staged(e)
       /\ (batch["A"].live /\ batch["A"].hist[e] = "remP") => ~InBatch(e)
  /\ scen["A"] = 5 =>
       /\ batch["A"].live
       /\ batch["A"].added = <<2>>
       /\ batch["A"].removed = <<>>
       /\ batch["A"].changed = <<>>
       /\ nb["A"] = 1

\* the scenario has run to its end, and its batch records the cancelled add of x
C5_Witness ==
  /\ scen["A"] = 5
  /\ batch["A"].hist[1] = "remP"
  /\ batch["A"].hist[2] = "addP"

\* C9: add for an id whose removal is staged cancels the removal and stages
\* no addition: until the id is removed again it is staged neither as added
\* nor as removed, and it is in neither list of the next batch.
C9_AddCancelsPendingRemoval ==
  \A e \in Ents :
    /\ hist["A"][e] = "addN" =>
         EntId(e) \notin IdsOf(addedEntities["A"]) \cup IdsOf(removedEntities["A"])
    /\ (batch["A"].live /\ batch["A"].hist[e] = "addN") =>
         EntId(e) \notin IdsOf(batch["A"].added) \cup IdsOf(batch["A"].removed)

\* a batch is delivered by resumeEvents after remove and add of a held entity
\* and a further change in the same epoch
C9_Witness ==
  /\ batch["A"].live
  /\ \E e \in Ents : batch["A"].hist[e] = "addN" /\ e \in Held("A")
  /\ Len(batch["A"].added) > 0

\* C10: removeAll empties the mapping, the added set and the changed set; the
\* entities reported as removed (staged, or delivered at once when events are
\* not suspended) are those staged before plus the held entities that were
\* not staged as added; entities staged as added are reported in no list;
\* the call starts at most one delivery.
C10_RemoveAll ==
  [][RemoveAll("A") =>
       LET expect == SeqToSet(removedEntities["A"]) \cup
                       {e \in Held("A") : EntId(e) \notin IdsOf(addedEntities["A"])}
       IN /\ entities'["A"] = <<>>
          /\ addedEntities'["A"] = <<>>
          /\ changedEntities'["A"] = <<>>
          /\ SeqToSet(addedEntities["A"]) \cap expect = {}
          /\ IF batch'["A"].live
             THEN /\ SeqToSet(batch'["A"].removed) = expect
                  /\ batch'["A"].added = <<>>
                  /\ batch'["A"].changed = <<>>
                  /\ removedEntities'["A"] = <<>>
                  /\ nb["A"] = 0 /\ nb'["A"] = 1
             ELSE /\ SeqToSet(removedEntities'["A"]) = expect
                  /\ nb'["A"] = nb["A"]]_vars

\* removeAll has just dropped an entity staged as added and staged a held one
\* as removed
C10_Witness ==
  /\ last = [op |-> "removeAll", res |-> "ok"]
  /\ \E e \in Ents : hist["A"][e] = "remP"
  /\ Len(removedEntities["A"]) = 1
  /\ suspendCount["A"] > 0

C4_SubscriberMutationReportedOnce ==
  stack = <<>> => \A e \in Ents : subAdd["A"][e] = "no"

\* C7: when the subscribers of a pass return without having changed the
\* mapping or a staging set, no further batch is delivered and the call that
\* started the delivery returns.
C7_LoopEndsAfterQuietPass ==
  [][(ListenerReturn("A") /\ Len(stack) = 1 /\ ~passMutated["A"])
       => (stack' = <<>> /\ nb'["A"] = 0)]_vars

\* ------------------------------------------------------- the show setter
\* One collection whose show flag and whose entities' show flags are assigned;
\* the entities used have different ids.
ShowEnts == {1, 2}
NextShow ==
  \/ \E e \in ShowEnts : Add("A", e)
  \/ \E e \in ShowEnts : Remove("A", e)
  \/ SuspendEvents("A")
  \/ ResumeEvents("A")
  \/ \E v \in BOOLEAN : SetShow("A", v)
  \/ \E e \in ShowEnts : ToggleEntityShow(e)
  \/ ListenerReturn("A")

InitShow == InitObs({"show", "batch", "nb", "isShowingRaised"}) /\ Alone
SpecShow == InitShow /\ [][NextShow]_vars

\* the state right after _show is assigned value
ShowAssigned(v) == [S EXCEPT !.show["A"] = v]

\* C11: an assignment to show raises exactly one "isShowing" notification for
\* every held entity whose effective visibility differs before and after the
\* assignment and none for any other entity; assigning the current value
\* raises none.
C11_ShowNotifiesAffected ==
  [][\A v \in BOOLEAN : SetShow("A", v) =>
       \A e \in Ents :
         isShowingRaised'[e] =
           IF e \in Held("A") /\ isShowing(S, e) # isShowing(ShowAssigned(v), e)
           THEN 1 ELSE 0]_vars

\* show was assigned FALSE on a collection that holds entity 1, shown, and
\* entity 2, whose own show is already FALSE: one notification, for entity 1
C11_Witness ==
  /\ last = [op |-> "show", res |-> "ok"]
  /\ ~show["A"]
  /\ Held("A") = {1, 2}
  /\ entShow[1] /\ ~entShow[2]
  /\ isShowingRaised = [e \in Ents |-> IF e = 1 THEN 1 ELSE 0]

\* held entities whose effective visibility changes when show is assigned v
\* and whose id is not staged as added
AffectedByShow(v) ==
  {e \in Held("A") : /\ isShowing(S, e) # isShowing(ShowAssigned(v), e)
                     /\ EntId(e) \notin IdsOf(addedEntities["A"])}

\* C12 as stated: an assignment to show made by the application leaves the
\* three staging sets as they were.
C12_ShowKeepsStaging_Original ==
  [][\A v \in BOOLEAN : (SetShow("A", v) /\ stack = <<>>) =>
       UNCHANGED <<addedEntities, removedEntities, changedEntities>>]_vars

\* C12 amended: an assignment to show leaves the mapping, the added set and
\* the removed set as they were and stages as changed exactly the held
\* entities whose effective visibility changed and whose id is not staged as
\* added; when the assignment is not enclosed in suspendEvents and no
\* delivery is in progress, what is staged is delivered in one batch and the
\* staging sets are empty afterwards.
C12_ShowKeepsStaging ==
  [][\A v \in BOOLEAN : SetShow("A", v) =>
       LET changedNow == SeqToSet(changedEntities["A"]) \cup
                           (IF v = show["A"] THEN {} ELSE AffectedByShow(v))
       IN /\ entities'["A"] = entities["A"]
          /\ suspendCount'["A"] = suspendCount["A"]
          /\ IF batch'["A"].live
             THEN /\ suspendCount["A"] = 0 /\ ~firing["A"]
                  /\ batch'["A"].added = addedEntities["A"]
                  /\ batch'["A"].removed = removedEntities["A"]
                  /\ SeqToSet(batch'["A"].changed) = changedNow
                  /\ Len(batch'["A"].changed) = Cardinality(changedNow)
                  /\ StagingEmpty(S', "A")
             ELSE /\ addedEntities'["A"] = addedEntities["A"]
                  /\ removedEntities'["A"] = removedEntities["A"]
                  /\ SeqToSet(changedEntities'["A"]) = changedNow
                  /\ Len(changedEntities'["A"]) = Cardinality(changedNow)
                  /\ (suspendCount["A"] = 0 /\ ~firing["A"]) => changedNow = {}]_vars

\* show was assigned inside suspendEvents on a collection holding an entity
\* staged as added and another that is not: only the latter is staged as
\* changed
C12_Witness ==
  /\ last = [op |-> "show", res |-> "ok"]
  /\ suspendCount["A"] > 0
  /\ stack = <<>>
  /\ Len(addedEntities["A"]) = 1
  /\ Len(changedEntities["A"]) = 1
  /\ isShowingRaised[1] + isShowingRaised[2] + isShowingRaised[3] = 2

\* ---------------------------------------------------------- two collections
\* Collections "A" and "B" used with the same entities.
NextOwn ==
  \/ \E c \in Colls, e \in Ents : Add(c, e)
  \/ \E c \in Colls, e \in Ents : Remove(c, e)
  \/ \E c \in Colls : RemoveAll(c)
  \/ \E c \in Colls : ListenerReturn(c)

InitOwn == InitObs({}) /\ Alone
SpecOwn == InitOwn /\ [][NextOwn]_vars

\* C13: no entity instance is held by two collections at the same time.
C13_HeldByOneCollection ==
  \A e \in Ents : ~(e \in Held("A") /\ e \in Held("B"))

\* C14: the owning-collection reference of an entity names a collection
\* exactly while that collection holds the entity, and names none otherwise.
C14_OwnerIsHolder ==
  \A e \in Ents : \A c \in Colls : (entityCollection[e] = c) <=> (e \in Held(c))

\* ----------------------------------------------------- computeAvailability
\* One collection whose entities 1 and 2 have any availability or none;
\* entity 3 has none.
AvailEnts == {1, 2}
InitAvail ==
  /\ InitObs({"computeAvailability"})
  /\ NoNode
  /\ NoPack
  /\ availability \in [Ents -> Intervals \cup {NoAvail}]
  /\ \A e \in Ents \ AvailEnts : availability[e] = NoAvail

NextAvail ==
  \/ \E e \in Ents : Add("A", e)
  \/ \E e \in Ents : Remove("A", e)
  \/ ComputeAvailability("A")
  \/ ListenerReturn("A")

SpecAvail == InitAvail /\ [][NextAvail]_vars

Least(X) == CHOOSE x \in X : \A y \in X : x <= y
Greatest(X) == CHOOSE x \in X : \A y \in X : x >= y

\* the availabilities of the held entities that have one
HeldAvailabilities == {availability[e] : e \in Held("A")} \ {NoAvail}

\* C15 as stated: start is the earliest start that is not MINIMUM_VALUE, or
\* MINIMUM_VALUE if there is none; stop is the latest stop that is not
\* MAXIMUM_VALUE, or MAXIMUM_VALUE if there is none.
C15_ComputeAvailability_Original ==
  interval # NoAvail =>
    LET starts == {a[1] : a \in HeldAvailabilities} \ {MINIMUM_VALUE}
        stops == {a[2] : a \in HeldAvailabilities} \ {MAXIMUM_VALUE}
    IN interval = <<IF starts = {} THEN MINIMUM_VALUE ELSE Least(starts),
                    IF stops = {} THEN MAXIMUM_VALUE ELSE Greatest(stops)>>

\* C15 amended: start is the earliest start among the held entities that is
\* neither MINIMUM_VALUE nor MAXIMUM_VALUE, or MINIMUM_VALUE if there is
\* none; stop is the latest stop that is neither of the two, or MAXIMUM_VALUE
\* if there is none; entities without availability do not count.
C15_ComputeAvailability ==
  interval # NoAvail =>
    LET starts == {a[1] : a \in HeldAvailabilities} \ {MINIMUM_VALUE, MAXIMUM_VALUE}
        stops == {a[2] : a \in HeldAvailabilities} \ {MINIMUM_VALUE, MAXIMUM_VALUE}
    IN interval = <<IF starts = {} THEN MINIMUM_VALUE ELSE Least(starts),
                    IF stops = {} THEN MAXIMUM_VALUE ELSE Greatest(stops)>>

\* computeAvailability has returned for a collection holding an entity
\* available from MINIMUM_VALUE and one available up to MAXIMUM_VALUE
C15_Witness ==
  /\ interval = <<2, 1>>
  /\ Held("A") = {1, 2}
  /\ availability[1] = <<MINIMUM_VALUE, 1>>
  /\ availability[2] = <<2, MAXIMUM_VALUE>>

\* the number of deliveries of c that are in progress on the call stack st
RECURSIVE DeliverDepth(_, _)
DeliverDepth(st, c) ==
  IF st = <<>> THEN 0
  ELSE (IF Head(st) = DeliverFrame(c) THEN 1 ELSE 0) + DeliverDepth(Tail(st), c)

\* C25: at most one delivery of the collection is in progress at any time,
\* and exactly while firing is set; a call made by a subscriber while a
\* delivery is in progress invokes no subscriber, and when it adds or
\* removes an entity it leaves the refire flag set.
C25_DeliveryNeverNested ==
  [][/\ DeliverDepth(stack, "A") <= 1 /\ DeliverDepth(stack', "A") <= 1
     /\ firing["A"] <=> DeliverDepth(stack, "A") = 1
     /\ firing'["A"] <=> DeliverDepth(stack', "A") = 1
     /\ refire'["A"] => firing'["A"]
     /\ (firing["A"] /\ last'.op # "return") =>
          /\ stack' = stack
          /\ (last'.op \in {"add", "remove", "removeById", "removeAll"}
                /\ last'.res \in {"ok", "true"}) => refire'["A"]]_vars

\* a subscriber that is being notified has added an entity: the addition is
\* staged and the refire flag is set
C25_Witness ==
  /\ last = [op |-> "add", res |-> "ok"]
  /\ stack = <<DeliverFrame("A")>>
  /\ firing["A"] /\ refire["A"]
  /\ Len(addedEntities["A"]) = 1

\* the number of times collection c is subscribed to definitionChanged of e
RECURSIVE Subscriptions(_, _, _)
Subscriptions(c, e, i) ==
  IF i > Len(listeners[e]) THEN 0
  ELSE (IF listeners[e][i] = c THEN 1 ELSE 0) + Subscriptions(c, e, i + 1)

\* C23: the collection is subscribed to the definitionChanged event of an
\* entity exactly once if it holds the entity and not at all otherwise.
C23_SubscribedIffHeld ==
  \A e \in Ents : Subscriptions("A", e, 1) = IF e \in Held("A") THEN 1 ELSE 0

\* ------------------------------------------------------ mirroring subscriber
\* One collection with a subscriber that applies every batch to its own map;
\* the application and the subscribers call add, remove, suspendEvents and
\* resumeEvents.
NextMirror ==
  \/ \E e \in Ents : Add("A", e)
  \/ \E e \in Ents : Remove("A", e)
  \/ SuspendEvents("A")
  \/ ResumeEvents("A")
  \/ ListenerReturn("A")

InitMirror == InitObs({"mirror"}) /\ Alone
SpecMirror == InitMirror /\ [][NextMirror]_vars

\* C26: whenever no delivery is in progress and events are not suspended,
\* the map of the mirroring subscriber holds under every id the instance
\* that the collection holds under it, and nothing under the other ids.
C26_MirrorAgrees ==
  (stack = <<>> /\ suspendCount["A"] = 0) =>
    \A id \in Ids : mirror["A"][id] = AAget(entities["A"], id)

\* ------------------------------------------------- changes while suspended
\* One collection whose entities are added, removed and mutated, with
\* events suspended or not.
NextChange ==
  \/ \E e \in Ents : Add("A", e)
  \/ \E e \in Ents : Remove("A", e)
  \/ \E e \in Ents : Mutate(e)
  \/ SuspendEvents("A")
  \/ ResumeEvents("A")
  \/ ListenerReturn("A")

InitChange == InitObs({"notified", "batch", "nb"}) /\ Alone
SpecChange == InitChange /\ [][NextChange]_vars

\* C27: an entity that raised definitionChanged while it was held and events
\* were suspended (and no delivery was in progress), and that is held when
\* the application's resumeEvents brings suspendCount to zero, is in the
\* added or the changed list of a batch delivered by that call.
C27_NoChangeLost ==
  [][(ResumeEvents("A") /\ stack = <<>> /\ suspendCount["A"] = 1) =>
       \A e \in notified["A"] \cap Held("A") :
         /\ batch'["A"].live
         /\ e \in SeqToSet(batch'["A"].added) \cup SeqToSet(batch'["A"].changed)]_vars

\* C28: every batch delivered to the subscribers holds at least one entity
\* in its added, removed or changed list.
C28_BatchNonEmpty ==
  batch["A"].live =>
    Len(batch["A"].added) + Len(batch["A"].removed) + Len(batch["A"].changed) > 0

\* ------------------------------------------------- subscribers that throw
\* One collection whose subscribers return or throw.
NextThrow ==
  \/ \E e \in Ents : Add("A", e)
  \/ \E e \in Ents : Remove("A", e)
  \/ SuspendEvents("A")
  \/ ResumeEvents("A")
  \/ ListenerReturn("A")
  \/ ListenerThrow("A")

InitThrow == InitObs({"throw", "batch", "nb"}) /\ Alone
SpecThrow == InitThrow /\ [][NextThrow]_vars

\* C30: when no call on the collection is in progress, whether the last one
\* returned or was left by an error of a subscriber, firing and refire are
\* false.
C30_FiringClearedAfterCall ==
  stack = <<>> => (~firing["A"] /\ ~refire["A"])

\* ------------------------------------------------ removal and lookup by id
\* One collection; remove and removeById are also called with undefined.
NextLookup ==
  \/ \E e \in Ents : Add("A", e)
  \/ \E e \in Ents \cup {NoEnt} : Remove("A", e)
  \/ \E id \in Ids \cup {NoId} : RemoveById("A", id)
  \/ \E id \in Ids : GetById("A", id)
  \/ \E id \in Ids : GetOrCreateEntity("A", id)
  \/ SuspendEvents("A")
  \/ ResumeEvents("A")
  \/ ListenerReturn("A")

InitLookup ==
  /\ InitObs({"remove", "removeById", "getById", "getOrCreateEntity", "batch", "nb"})
  /\ Alone
SpecLookup == InitLookup /\ [][NextLookup]_vars

\* the call changed nothing of the collection and delivered nothing
NothingDone ==
  /\ UNCHANGED <<entities, addedEntities, removedEntities, changedEntities,
                 listeners, entityCollection, suspendCount, show, firing, refire, stack>>
  /\ ~batch'["A"].live

\* C21: remove(entity) and removeById(id) for an id that is not held, or for
\* an undefined argument, return false, change nothing and deliver nothing;
\* for a held id they return true and the id is no longer held.
C21_RemoveAbsentReturnsFalse ==
  [][/\ \A id \in Ids \cup {NoId} :
          RemoveById("A", id) =>
            IF id \notin HeldIds("A")
            THEN last'.res = "false" /\ NothingDone
            ELSE last'.res = "true" /\ id \notin IdsOf(entities'["A"])
     /\ \A e \in Ents \cup {NoEnt} :
          Remove("A", e) =>
            IF e = NoEnt \/ EntId(e) \notin HeldIds("A")
            THEN last'.res = "false" /\ NothingDone
            ELSE last'.res = "true" /\ EntId(e) \notin IdsOf(entities'["A"])]_vars

\* a subscriber that is being notified has just called removeById for an id
\* that is not held, while an entity is held and another call of the
\* subscriber is staged
C21_Witness ==
  /\ last = [op |-> "removeById", res |-> "false"]
  /\ stack = <<DeliverFrame("A")>>
  /\ Len(entities["A"]) = 1
  /\ Len(addedEntities["A"]) + Len(removedEntities["A"]) > 0

\* C22: getOrCreateEntity(id) for a held id returns the held entity, changes
\* nothing and delivers nothing; otherwise it returns a new entity with that
\* id which it has added as add does (held, subscribed once, owned by the
\* collection, and staged as added or delivered as added unless a staged
\* removal of the id was cancelled); in both cases the entity held under id
\* afterwards is the returned one, and getById returns the held entity and
\* changes nothing.
C22_GetOrCreateEntity ==
  [][/\ \A id \in Ids :
          GetOrCreateEntity("A", id) =>
            /\ returned' # NoEnt /\ EntId(returned') = id
            /\ AAget(entities'["A"], id) = returned'
            /\ IF id \in HeldIds("A")
               THEN returned' = AAget(entities["A"], id) /\ NothingDone
               ELSE /\ returned' \in Unused(id)
                    /\ entities'["A"] = Append(entities["A"], returned')
                    /\ listeners'[returned'] = <<"A">>
                    /\ entityCollection'[returned'] = "A"
                    /\ IF id \in IdsOf(removedEntities["A"])
                       THEN /\ id \notin IdsOf(removedEntities'["A"])
                            /\ addedEntities'["A"] = addedEntities["A"]
                       ELSE IF suspendCount["A"] > 0 \/ firing["A"]
                       THEN addedEntities'["A"] = Append(addedEntities["A"], returned')
                       ELSE /\ batch'["A"].live
                            /\ batch'["A"].added = <<returned'>>
                            /\ batch'["A"].removed = <<>>
                            /\ addedEntities'["A"] = <<>>
     /\ \A id \in Ids :
          GetById("A", id) =>
            returned' = AAget(entities["A"], id) /\ NothingDone]_vars

\* getOrCreateEntity has just created an entity, which is being delivered as
\* added while another entity is held
C22_Witness ==
  /\ last = [op |-> "getOrCreateEntity", res |-> "ok"]
  /\ returned # NoEnt
  /\ batch["A"].live /\ batch["A"].added = <<returned>>
  /\ Len(entities["A"]) = 2

\* C29: the interval that computeAvailability returns is not inverted: its
\* start is not later than its stop.
C29_IntervalNotInverted ==
  interval # NoAvail => interval[1] <= interval[2]

\* ------------------------------------------------------------- the node
\* One node, built from any of the options and then used.
InitNode ==
  /\ InitObs({})
  /\ NoAvailability
  /\ NoPack
  /\ node \in {ModelExperimentalNode(o) : o \in Options}
  /\ nodeOp = "new"
  /\ differed = FALSE

NextNode ==
  \/ \E v \in TransformInputs : SetTransform(v)
  \/ ConfigurePipeline
  \/ \E l \in {"pipelineStages", "updateStages"}, st \in Stages : PushStage(l, st)
  \/ ConsumerClear

SpecNode == InitNode /\ [][NextNode]_vars

\* the instancing transform that the current transforms and axes give
ExpectedInstancing ==
  correctModelMatrix(Matrix4multiply(node.transformToRoot, node.transform),
                     node.sceneGraph.components.upAxis,
                     node.sceneGraph.components.forwardAxis)

\* C16: for a node whose node.instances is defined, after construction and
\* after every assignment of transform, instancingNodeTransform is the
\* axis-corrected product transformToRoot x transform, computed from the
\* current values.
C16_InstancingTransform ==
  node.node.instances => node.instancingNodeTransform = ExpectedInstancing

\* an instanced node below a root that is not the identity, with a Y up axis,
\* has just been given a different transform, and the order of the product
\* matters for it
C16_Witness ==
  /\ nodeOp = "setDiff"
  /\ node.node.instances
  /\ node.transformToRoot # IDENTITY
  /\ node.sceneGraph.components.upAxis = "Y"
  /\ Matrix4multiply(node.transformToRoot, node.transform)
       # Matrix4multiply(node.transform, node.transformToRoot)

\* C17: assigning to transform a value equal to the current one changes
\* nothing: transform, the dirty flag, the instancing transform and the
\* stage lists stay as they were.
C17_EqualAssignIsNoOp ==
  [][\A v \in TransformInputs :
       (SetTransform(v) /\ Matrix4equals(node.transform, v)) => node' = node]_vars

\* a clean instanced node has just been assigned the value it already had
C17_Witness ==
  /\ nodeOp = "setSame"
  /\ ~node.transformDirty
  /\ node.node.instances

\* C18: instancingNodeTransform is defined exactly when node.instances is
\* defined, after construction and after any assignment of transform.
C18_InstancingDefinedIffInstances ==
  (node.instancingNodeTransform # NoMat) <=> node.node.instances

\* a node without instances has been given a different transform and still
\* has no instancing transform
C18_Witness ==
  /\ nodeOp = "setDiff"
  /\ ~node.node.instances
  /\ node.instancingNodeTransform = NoMat

\* C19: the dirty flag is false after construction, an assignment of
\* transform sets it exactly when the value differs from the current one,
\* an assignment of an equal value leaves it as it is, and no operation of
\* the node resets it: only the consumer of the flag clears it.
C19_DirtyFlag ==
  [][/\ nodeOp = "new" => ~node.transformDirty
     /\ \A v \in TransformInputs :
          SetTransform(v) =>
            node'.transformDirty =
              (node.transformDirty \/ ~Matrix4equals(node.transform, v))
     /\ (node.transformDirty /\ ~node'.transformDirty) => ConsumerClear
     /\ node.transformDirty <=> differed
     /\ node'.transformDirty <=> differed']_vars

\* an assignment of a value that differs from the current one has just
\* set the flag
C19_Witness ==
  /\ nodeOp = "setDiff"
  /\ node.transformDirty
  /\ differed

\* the two stage lists that configurePipeline builds for the node
ConfiguredPipelineStages ==
  IF node.node.instances THEN <<InstancingPipelineStage>> ELSE <<>>
ConfiguredUpdateStages == <<ModelMatrixUpdateStage>>

\* C20: configurePipeline leaves the two stage lists with the same content
\* whatever they held before (InstancingPipelineStage exactly when
\* node.instances is defined, and ModelMatrixUpdateStage), so calling it
\* again changes nothing, and it changes nothing else of the node.
C20_ConfigurePipelineIdempotent ==
  [][ConfigurePipeline =>
       /\ node'.pipelineStages = ConfiguredPipelineStages
       /\ node'.updateStages = ConfiguredUpdateStages
       /\ node' = [node EXCEPT !.pipelineStages = ConfiguredPipelineStages,
                               !.updateStages = ConfiguredUpdateStages]
       /\ configurePipeline(node') = node']_vars

\* configurePipeline has just rebuilt lists that other code had added to
C20_Witness ==
  /\ nodeOp = "reconfigure"
  /\ node.node.instances
  /\ node.pipelineStages = <<InstancingPipelineStage>>
  /\ node.updateStages = <<ModelMatrixUpdateStage>>

\* ----------------------------------------------- EllipsoidOutlineGeometry
\* One geometry, constructed from any of the options, is packed into an
\* array at any starting index and unpacked from it.
InitPack ==
  /\ InitObs({})
  /\ NoAvailability
  /\ NoNode
  /\ geometry \in {EllipsoidOutlineGeometry(o) : o \in GeometryOptions}
  /\ array = [i \in Indices |-> Undefined]
  /\ result = <<>>
  /\ packOp = NoPackOp

NextPack ==
  \/ \E startingIndex \in Starts : Pack(startingIndex)
  \/ \E startingIndex \in Starts, withResult \in BOOLEAN :
       Unpack(startingIndex, withResult)

SpecPack == InitPack /\ [][NextPack]_vars

\* the six values of g are in arr from index i on
PackedAt(arr, i, g) ==
  /\ arr[i] = g.radii[1] /\ arr[i + 1] = g.radii[2] /\ arr[i + 2] = g.radii[3]
  /\ arr[i + 3] = g.stackPartitions
  /\ arr[i + 4] = g.slicePartitions
  /\ arr[i + 5] = g.subdivisions

\* C24: pack writes the radii x, y, z and then stackPartitions,
\* slicePartitions and subdivisions, six values, from startingIndex on (from
\* 0 when it is undefined) and leaves the rest of the array as it was; unpack
\* of an array holding these values at startingIndex, with or without a
\* result object, returns a geometry with the same radii and counts.
C24_PackUnpackRoundTrip ==
  [][/\ packedLength = 6
     /\ \A startingIndex \in Starts :
          Pack(startingIndex) =>
            LET i == IF startingIndex = Undefined THEN 0 ELSE startingIndex
            IN /\ PackedAt(array', i, geometry)
               /\ \A k \in Indices \ (i..(i + 5)) : array'[k] = array[k]
     /\ \A startingIndex \in Starts, withResult \in BOOLEAN :
          LET i == IF startingIndex = Undefined THEN 0 ELSE startingIndex
          IN (Unpack(startingIndex, withResult) /\ PackedAt(array, i, geometry))
               => /\ result'[1].radii = geometry.radii
                  /\ result'[1].stackPartitions = geometry.stackPartitions
                  /\ result'[1].slicePartitions = geometry.slicePartitions
                  /\ result'[1].subdivisions = geometry.subdivisions]_vars

\* a geometry with three different radii and three different counts, one
\* of them rounded by the constructor, has been packed at index 1 and
\* unpacked from there without a result object
C24_Witness ==
  /\ packOp = [op |-> "unpack", startingIndex |-> 1, withResult |-> FALSE]
  /\ PackedAt(array, 1, geometry)
  /\ result = <<geometry>>
  /\ geometry.radii = <<Whole(1), Whole(2), Whole(3)>>
  /\ geometry.stackPartitions = Whole(2)
  /\ geometry.slicePartitions = Whole(0)
  /\ geometry.subdivisions = Whole(3)
====
